---- MODULE Spec2Model ----
(***************************************************************************)
(* MapZ: the tiled-map viewers map.py and dash.py as one state machine.    *)
(*                                                                         *)
(* Numbers.  The viewers compute with Python floats.  Here every float is  *)
(* a fixed-point integer in thousandths: a zoom value z stands for         *)
(* z/1000 levels, an offset o for o/1000 pixels, a world coordinate w for  *)
(* w/1000 tiles.  Every float operation is computed exactly and rounded    *)
(* once to the nearest thousandth (IEEE rounds to the nearest double).     *)
(* Screen points, tile indices and zoom levels are integers as in Python.  *)
(***************************************************************************)
EXTENDS Integers, Sequences, FiniteSets, TLC

\* ---------------------------------------------------------------- constants

TILE_SIZE == 256
START_ZOOM == 2
MAX_ZOOM == 5
\* MIN_ZOOM is 2 in map.py and 4 in dash.py
MIN_ZOOM(v) == IF v = "map" THEN 2 ELSE 4
\* SMOOTH_SPEED = 0.2 = 1/SMOOTH_DEN
SMOOTH_DEN == 5
\* FloatingWindow title_height
TITLE_HEIGHT == 28

\* thousandths: the resolution of every modelled float
Unit == 1000

Viewers == {"map", "dash"}

\* ---------------------------------------------------------------- numerics

Abs(a) == IF a < 0 THEN -a ELSE a
Max2(a, b) == IF a >= b THEN a ELSE b
Min2(a, b) == IF a <= b THEN a ELSE b
SetMax(S) == CHOOSE m \in S : \A s \in S : s <= m
SetMin(S) == CHOOSE m \in S : \A s \in S : m <= s

\* a/b rounded to the nearest integer (b > 0), halves upward
RoundDiv(a, b) == (2 * a + b) \div (2 * b)

\* a*b/c rounded to the nearest integer (b >= 0, c > 0) without forming a*b
\* when a is large: a = q*c + r gives a*b/c = q*b + r*b/c
MulDiv(a, b, c) == (a \div c) * b + RoundDiv((a % c) * b, c)

\* Python int(): truncation toward zero of a value in thousandths
PyInt(a) == IF a >= 0 THEN a \div Unit ELSE -((-a) \div Unit)

\* int() taken where round() stands: the fraction is dropped
PyFloor(a) == a \div Unit

\* Python round() of a value in thousandths: to the nearest integer, ties to
\* the even one (round(2.5) == 2, round(3.5) == 4)
PyRound(a) ==
    LET f == a \div Unit
        r == a % Unit
    IN  IF 2 * r < Unit THEN f
        ELSE IF 2 * r > Unit THEN f + 1
        ELSE IF f % 2 = 0 THEN f ELSE f + 1

\* a zoom scale is the quotient num/den of a zoom value (thousandths) and an
\* integer level, as in zoom_float / current_zoom
Scale(num, den) == [num |-> num, den |-> den]

\* k * TILE_SIZE * zoom_scale in thousandths of a pixel, k an integer
TilePx(k, s) == RoundDiv(k * TILE_SIZE * s.num, s.den)

lerp(a, b) == a + RoundDiv(b - a, SMOOTH_DEN)

\* ---------------------------------------------------------------- clamp_offset

TileXs(tiles) == {t[1] : t \in tiles}
TileYs(tiles) == {t[2] : t \in tiles}

\* max_x_off / max_y_off for the index set idx of an axis
MaxOff(idx, s) == -TilePx(SetMin(idx), s)
\* min_x_off / min_y_off for the index set idx and the viewport extent ext
MinOff(idx, ext, s) == ext * Unit - TilePx(SetMax(idx) + 1, s)
\* map_w / map_h (computed by the code, never used by it)
MapExtent(idx, s) == TilePx(SetMax(idx) - SetMin(idx) + 1, s)

\* clamp_offset's return expression with min and max exchanged
ClampAxisSwapped(o, idx, ext, s) == Min2(MinOff(idx, ext, s), Max2(MaxOff(idx, s), o))

ClampAxis(o, idx, ext, s) == Max2(MinOff(idx, ext, s), Min2(MaxOff(idx, s), o))

\* clamp_offset without its early return: an empty dict is taken for one
\* holding the single tile (0, 0)
clamp_offset_always(off, tiles, view, s) ==
    <<ClampAxis(off[1], TileXs(DOMAIN tiles \cup {<<0, 0>>}), view[1], s),
      ClampAxis(off[2], TileYs(DOMAIN tiles \cup {<<0, 0>>}), view[2], s)>>

\* tiles is the dict (column, row) -> image; an empty dict is falsy
clamp_offset(off, tiles, view, s) ==
    IF DOMAIN tiles = {} THEN off
    ELSE <<ClampAxis(off[1], TileXs(DOMAIN tiles), view[1], s),
           ClampAxis(off[2], TileYs(DOMAIN tiles), view[2], s)>>

\* ---------------------------------------------------------------- state

VARIABLES
    viewer,             \* which program runs: "map" (map.py) or "dash" (dash.py)
    disk,               \* the tile directory: level -> "absent" or its entries
    pc,                 \* position in the frame loop: "render", "events", "done"
    running,
    screen,             \* <<screen_w, screen_h>>
    current_zoom,
    tiles,              \* dict <<column, row>> -> image <<level, column, row>>
    scaled_tiles_cache, \* dict <<column, row, int(zoom*100)>> -> scaled image
    offset,             \* <<offset_x, offset_y>>
    target_offset,      \* <<target_offset_x, target_offset_y>>
    zoom_float,
    target_zoom,
    dragging_map,       \* dragging in map.py, dragging_map in dash.py
    drag_start,
    drag_offset_start,
    pan_last,           \* where the pointer was at the previous pan step of the drag
    invert,             \* invert_enabled in map.py, invert_large in dash.py
    map_xy,             \* dash.py: <<map_x, map_y>> of the last render
    log_entries,        \* dash.py
    markers,            \* dash.py
    current_comment,    \* dash.py
    typing_comment,     \* dash.py
    entry_rects,        \* dash.py
    win,                \* dash.py: window name -> its FloatingWindow fields
    windows,            \* dash.py: the draw list, bottom first
    active_window,      \* dash.py
    events_left,        \* events the exploration still delivers
    frames_left,        \* frames the exploration still runs
    cin,                \* arguments of a function called on its own
    cout,               \* its result
    _downloaded,        \* runSnatcher.py: the URLs a download task has claimed
    queue,              \* tasks submitted to the executor and not yet started
    worker,             \* worker thread -> where it is in download_tile, and its url
    lock,               \* "free", or the thread inside a with lock: block
    last_tile_time,     \* the module global
    now,                \* time.time(), whole seconds since the module was loaded
    monitor,            \* the monitor thread: where it is, and its local
                        \* last_tile_time with whether it has been assigned
    main_pc,            \* where main() is
    browser,            \* "unopened", "open", "closed"
    captured,           \* the URLs passed to schedule_download, in order
    fetched,            \* URL -> number of requests.get calls made for it
    written,            \* URL -> number of times its file was written
    printed             \* which messages have been printed

vars == <<viewer, disk, pc, running, screen, current_zoom, tiles,
          scaled_tiles_cache, offset, target_offset, zoom_float, target_zoom,
          dragging_map, drag_start, drag_offset_start, pan_last, invert, map_xy,
          log_entries, markers, current_comment, typing_comment, entry_rects,
          win, windows, active_window, events_left, frames_left, cin, cout,
          _downloaded, queue, worker, lock, last_tile_time, now, monitor, main_pc,
          browser, captured, fetched, written, printed>>

viewVars == <<current_zoom, tiles, scaled_tiles_cache, offset, target_offset,
              zoom_float, target_zoom>>
dragVars == <<dragging_map, drag_start, drag_offset_start, pan_last>>
logVars == <<log_entries, markers, current_comment, typing_comment>>
winVars == <<win, windows, active_window>>
snatcherVars == <<_downloaded, queue, worker, lock, last_tile_time, now, monitor,
                  main_pc, browser, captured, fetched, written, printed>>
envVars == <<viewer, disk, cin, cout, snatcherVars>>

\* ---------------------------------------------------------------- the tile directory

\* A directory entry tiles/<level>/<x>/<y>: "ok" is an integer-named .webp that
\* decodes, "notdir" an <x> that is no directory, "notwebp" a file without the
\* suffix, "badname" a name int() rejects, "undecodable" an image pygame
\* cannot load.
Entry(x, y, kind) == [x |-> x, y |-> y, kind |-> kind]
Grid(xs, ys) == {Entry(x, y, "ok") : x \in xs, y \in ys}

Levels == 2..MAX_ZOOM

\* a level directory that exists, and one that does not
Dir(entries) == [present |-> TRUE, entries |-> entries]
Absent == [present |-> FALSE, entries |-> {}]

DiskFull ==
    [l \in Levels |->
        CASE l = 2 -> Dir(Grid(0..3, 0..3) \cup {Entry(4, 0, "undecodable"), Entry(9, 9, "badname")})
          [] l = 3 -> Dir(Grid(0..7, 0..7) \cup {Entry(8, 0, "notdir")})
          [] l = 4 -> Dir(Grid(0..7, 0..5) \cup {Entry(8, 0, "notwebp")})
          [] OTHER -> Dir(Grid(0..9, 0..7))]

\* levels 3 and 5 hold no tile: 3 is absent, 5 holds only files that are skipped
DiskGap ==
    [l \in Levels |->
        CASE l = 2 -> Dir(Grid(0..3, 0..3))
          [] l = 3 -> Absent
          [] l = 4 -> Dir(Grid(0..7, 0..5))
          [] OTHER -> Dir({Entry(0, 0, "undecodable"), Entry(1, 1, "badname")})]

DiskNone == [l \in Levels |-> Absent]

\* a partial download: few tiles per level, none at column or row 0
DiskSmall ==
    [l \in Levels |->
        CASE l = 2 -> Dir(Grid(1..2, 1..2))
          [] l = 3 -> Dir(Grid(2..4, 2..4))
          [] l = 4 -> Dir(Grid(1..2, 1..2))
          [] OTHER -> Dir(Grid(2..5, 2..5))]

Disks == {DiskFull, DiskGap, DiskNone, DiskSmall}

\* a pyramid: every level covers the same square of the world, each with twice
\* the columns and rows of the level below it
DiskPyramid ==
    [l \in Levels |->
        CASE l = 2 -> Dir(Grid(0..0, 0..0))
          [] l = 3 -> Dir(Grid(0..1, 0..1))
          [] l = 4 -> Dir(Grid(0..3, 0..3))
          [] OTHER -> Dir(Grid(0..7, 0..7))]

\* an entry taken although pygame.image.load fails on it
LoadedUndecoded(e) == e.kind \in {"ok", "undecodable"}

\* the entry passes isdir, endswith(".webp"), int() and pygame.image.load
Loaded(e) == e.kind = "ok"

load_tiles_on(d, zoom) ==
    IF zoom \notin DOMAIN d \/ ~d[zoom].present THEN << >>
    ELSE LET good == {e \in d[zoom].entries : Loaded(e)}
         IN  [t \in {<<e.x, e.y>> : e \in good} |-> <<zoom, t[1], t[2]>>]

load_tiles(zoom) == load_tiles_on(disk, zoom)

\* ---------------------------------------------------------------- initial state

Rect(x, y, w, h) == [x |-> x, y |-> y, w |-> w, h |-> h]

FloatingWindow(rect) ==
    [rect |-> rect, dragging |-> FALSE, drag_offset |-> <<0, 0>>]

\* int(screen_w * 0.28) and the like
Percent(n, pct) == (n * pct) \div 100

InitWindows(scr) ==
    LET small_w == Percent(scr[1], 28)
        small_h == Percent(scr[2], 28)
        log_w == Percent(scr[1], 22)
        log_h == Percent(scr[2], 20)
    IN  [small |-> FloatingWindow(Rect(scr[1] - small_w - 40, 60, small_w, small_h)),
         log |-> FloatingWindow(Rect(40, 60, log_w, log_h))]

\* map.py opens a 1024 x 768 window; dash.py takes the display's size
StartScreen == <<1024, 768>>

\* ---------------------------------------------------------------- the downloader at import

\* the worker threads of the executor that are modelled, of its max_workers
Workers == {"w1", "w2"}

\* the URLs a page requests under BASE_PREFIX: two tiles, and a file that is
\* not a .webp, which _tile_path_re does not match
Urls == {"tile_a", "tile_b", "other"}

\* _tile_path_re.match(url)
Matches(url) == url # "other"

\* runSnatcher.py once its module body has run: no thread started, no browser
InitSnatcher ==
    /\ _downloaded = {}
    /\ queue = << >>
    /\ worker = [w \in Workers |-> [pc |-> "idle", url |-> "none"]]
    /\ lock = "free"
    /\ last_tile_time = 0
    /\ now = 0
    /\ monitor = [pc |-> "unstarted", bound |-> FALSE, last_tile_time |-> 0]
    /\ main_pc = "start"
    /\ browser = "unopened"
    /\ captured = << >>
    /\ fetched = [u \in Urls |-> 0]
    /\ written = [u \in Urls |-> 0]
    /\ printed = {}

NoCall == [off |-> <<0, 0>>, tiles |-> << >>, view |-> <<0, 0>>, s |-> Scale(Unit, 1)]
NoResult == [done |-> FALSE, off |-> <<0, 0>>]

InitViewer ==
    /\ pc = "render"
    /\ running = TRUE
    /\ screen = StartScreen
    /\ current_zoom = START_ZOOM
    /\ tiles = load_tiles(START_ZOOM)
    /\ scaled_tiles_cache = << >>
    /\ offset = <<0, 0>>
    /\ target_offset = <<0, 0>>
    /\ zoom_float = START_ZOOM * Unit
    /\ target_zoom = START_ZOOM * Unit
    /\ dragging_map = FALSE
    /\ drag_start = <<0, 0>>
    /\ drag_offset_start = <<0, 0>>
    /\ pan_last = <<0, 0>>
    /\ invert = (viewer = "dash")
    /\ map_xy = <<0, 0>>
    /\ log_entries = << >>
    /\ markers = << >>
    /\ current_comment = << >>
    /\ typing_comment = FALSE
    /\ entry_rects = << >>
    /\ win = InitWindows(StartScreen)
    /\ windows = <<"small", "log">>
    /\ active_window = "none"

\* bounds of the exploration: events delivered and frames run
MaxEvents == 2
MaxFrames == 4

Init ==
    /\ viewer \in Viewers
    /\ disk \in Disks
    /\ cin = NoCall
    /\ cout = NoResult
    /\ InitSnatcher
    /\ events_left = MaxEvents
    /\ frames_left = MaxFrames
    /\ InitViewer

\* ---------------------------------------------------------------- rendering

\* int(a / b) for b > 0: Python truncates toward zero
TruncDiv(a, b) == IF a >= 0 THEN a \div b ELSE -((-a) \div b)

\* zoom_scale = zoom_float / current_zoom
zoom_scale == Scale(zoom_float, current_zoom)

\* the offset tiles and markers are placed with: the animated offset in
\* map.py, the target offset in dash.py
DrawOffset == IF viewer = "dash" THEN target_offset ELSE offset

\* range(start, end + 1) of one axis: idx the tile indices of that axis, o the
\* offset, ext the surface extent in pixels
VisibleRange(idx, o, ext, s) ==
    LET start == Max2(SetMin(idx), TruncDiv(-o, TilePx(1, s)))
        end == Min2(SetMax(idx), TruncDiv(ext * Unit - o, TilePx(1, s)) + 1)
    IN  start..end

\* the (x, y) pairs the two nested loops of a render pass visit
VisitedCells(t, off, size, s) ==
    IF DOMAIN t = {} THEN {}
    ELSE VisibleRange(TileXs(DOMAIN t), off[1], size[1], s)
            \X VisibleRange(TileYs(DOMAIN t), off[2], size[2], s)

\* key = (x, y, int(zoom_float * 100))
CacheKey(c, z) == <<c[1], c[2], (z * 100) \div Unit>>

\* pygame.transform.smoothscale(tile, (n, n)) with n = int(TILE_SIZE * zoom_scale)
smoothscale(img, s) == [src |-> img, size |-> PyInt(TilePx(1, s))]

\* the keys one render pass asks the cache for: the visited cells that hold a tile
RequestedKeys(t, off, size, z, s) ==
    {CacheKey(c, z) : c \in {v \in VisitedCells(t, off, size, s) : v \in DOMAIN t}}

\* the test made as if the cache never held the key
MissingAlways(cache, k) == TRUE

\* if key not in scaled_tiles_cache:
Missing(cache, k) == k \notin DOMAIN cache

\* the keys for which one render pass calls smoothscale
ResampledKeys(cache, t, off, size, z, s) ==
    {k \in RequestedKeys(t, off, size, z, s) : Missing(cache, k)}

\* the cache after one render pass onto a surface of the given size
render_map(cache, t, off, size, z, s) ==
    LET resampled == ResampledKeys(cache, t, off, size, z, s)
    IN  [k \in DOMAIN cache \cup resampled |->
            IF k \in resampled
            THEN smoothscale(t[<<k[1], k[2]>>], s)
            ELSE cache[k]]

\* the readout formula with the offset left out
ScreenToWorldNoOffset(p, o, s) == MulDiv(p * Unit, Unit, TilePx(1, s))

\* map_x, map_y: the world coordinate under the crosshair, thousandths of a tile
ScreenToWorld(p, o, s) == MulDiv(p * Unit - o, Unit, TilePx(1, s))
\* px, py of a marker before int(): thousandths of a pixel
WorldToScreen(w, o, s) == MulDiv(w, TilePx(1, s), Unit) + o

Crosshair(scr) == <<scr[1] \div 2, scr[2] \div 2>>

\* the offset of the crosshair readout of dash.py, and the offset and scale
\* its markers are placed with
ReadoutOffset == target_offset
MarkerOffset == target_offset
MarkerScale == Scale(zoom_float, current_zoom)

Last10(q) == IF Len(q) <= 10 THEN q ELSE SubSeq(q, Len(q) - 9, Len(q))

\* the clickable rectangles of the log panel, in screen coordinates
EntryRects(w, entries) ==
    [i \in 1..Len(Last10(entries)) |->
        [rect |-> Rect(8 + w.rect.x, 8 + 22 * (i - 1) + w.rect.y + TITLE_HEIGHT,
                       w.rect.w - 16, 18),
         x |-> Last10(entries)[i].x, y |-> Last10(entries)[i].y,
         z |-> Last10(entries)[i].zoom, comment |-> Last10(entries)[i].comment]]

MiniSize == <<win["small"].rect.w, win["small"].rect.h - TITLE_HEIGHT>>

\* px, py of the tile at cell c: int(x * TILE_SIZE * zoom_scale + offset)
TilePlace(c) == <<PyInt(TilePx(c[1], zoom_scale) + DrawOffset[1]),
                  PyInt(TilePx(c[2], zoom_scale) + DrawOffset[2])>>

\* px, py of marker m in dash.py
MarkerPx(m) == <<PyInt(WorldToScreen(m.x, MarkerOffset[1], MarkerScale)),
                 PyInt(WorldToScreen(m.y, MarkerOffset[2], MarkerScale))>>

\* map_x, map_y as a render pass of dash.py computes them
Readout == <<ScreenToWorld(Crosshair(screen)[1], ReadoutOffset[1], zoom_scale),
             ScreenToWorld(Crosshair(screen)[2], ReadoutOffset[2], zoom_scale)>>

\* the number of smoothscale calls of one frame: the pass onto the screen and,
\* in dash.py, the pass onto the mini map that follows it
ResampleCalls ==
    LET first == ResampledKeys(scaled_tiles_cache, tiles, DrawOffset, screen,
                               zoom_float, zoom_scale)
        large == render_map(scaled_tiles_cache, tiles, DrawOffset, screen,
                            zoom_float, zoom_scale)
        second == ResampledKeys(large, tiles, DrawOffset, MiniSize, zoom_float, zoom_scale)
    IN  Cardinality(first) + (IF viewer = "dash" THEN Cardinality(second) ELSE 0)

\* One pass of the loop body up to pygame.display.flip(): the tile cache is
\* filled for the visited cells; dash.py also renders the mini map, reads the
\* crosshair coordinate and rebuilds the log panel's rectangles.
Render ==
    /\ pc = "render"
    /\ pc' = "events"
    /\ LET large == render_map(scaled_tiles_cache, tiles, DrawOffset, screen,
                               zoom_float, zoom_scale)
       IN  scaled_tiles_cache' =
               IF viewer = "dash"
               THEN render_map(large, tiles, DrawOffset, MiniSize, zoom_float, zoom_scale)
               ELSE large
    /\ IF viewer = "dash"
       THEN /\ map_xy' = Readout
            /\ entry_rects' = EntryRects(win["log"], log_entries)
       ELSE UNCHANGED <<map_xy, entry_rects>>
    /\ UNCHANGED <<current_zoom, tiles, offset, target_offset, zoom_float, target_zoom>>
    /\ UNCHANGED <<running, screen, invert, events_left, frames_left>>
    /\ UNCHANGED <<dragVars, logVars, winVars, envVars>>

\* ---------------------------------------------------------------- events

\* pointer positions: on the map, on the first log line, on the log panel's
\* title bar, on the mini map's title bar, and toward the lower right
Points == {<<400, 300>>, <<100, 100>>, <<100, 70>>, <<800, 70>>, <<700, 500>>}
\* where the wheel is turned: over the map, and over the log panel
WheelPoints == {<<400, 300>>, <<100, 100>>}
WheelYs == {1, -1}
Keys == {"i", "escape", "return", "backspace", "a"}
Sizes == {<<800, 600>>}

\* taking one event from pygame.event.get()
Take ==
    /\ pc = "events"
    /\ events_left > 0
    /\ events_left' = events_left - 1
    /\ UNCHANGED <<pc, frames_left, envVars, map_xy, entry_rects>>

\* 2 ** (e / 1000) in thousandths, for -1000 <= e <= 2000.  Whole exponents
\* are exact; between them the value is interpolated in a table of 2 ** (k / 10).
Pow2Tab == <<1000, 1072, 1149, 1231, 1320, 1414, 1516, 1625, 1741, 1866, 2000>>
Pow2(e) ==
    LET k == e \div Unit
        f == e % Unit
        i == f \div 100
        frac == Pow2Tab[i + 1] + RoundDiv((Pow2Tab[i + 2] - Pow2Tab[i + 1]) * (f % 100), 100)
    IN  CASE k = -1 -> RoundDiv(frac, 2)
          [] k = 0 -> frac
          [] k = 1 -> 2 * frac
          [] OTHER -> 4 * frac

ClampZoom(z) == Max2(MIN_ZOOM(viewer) * Unit, Min2(MAX_ZOOM * Unit, z))

\* mx - zoom_ratio * (mx - target_offset_x)
ZoomAbout(m, o, ratio) == m * Unit - MulDiv(m * Unit - o, ratio, Unit)

\* MOUSEWHEEL, the pointer at p
WheelTargets(p, y) ==
    LET zoom_change == IF y > 0 THEN 1 ELSE -1
        new_target_zoom == ClampZoom(target_zoom + zoom_change * Unit)
        zoom_ratio == Pow2(new_target_zoom - target_zoom)
        moved == <<ZoomAbout(p[1], target_offset[1], zoom_ratio),
                   ZoomAbout(p[2], target_offset[2], zoom_ratio)>>
    IN  [zoom |-> new_target_zoom,
         unclamped |-> moved,
         offset |-> clamp_offset(moved, tiles, screen, Scale(new_target_zoom, current_zoom))]

Wheel(p, y) ==
    /\ Take
    /\ target_zoom' = WheelTargets(p, y).zoom
    /\ target_offset' = WheelTargets(p, y).offset
    /\ UNCHANGED <<current_zoom, tiles, scaled_tiles_cache, offset, zoom_float>>
    /\ UNCHANGED <<running, screen, invert, dragVars, logVars, winVars>>

\* the pan of a MOUSEMOTION at p while the map is dragged
PanTarget(p) ==
    clamp_offset(<<drag_offset_start[1] + (p[1] - drag_start[1]) * Unit,
                   drag_offset_start[2] + (p[2] - drag_start[2]) * Unit>>,
                 tiles, screen, zoom_scale)

collidepoint(r, p) ==
    /\ r.x <= p[1] /\ p[1] < r.x + r.w
    /\ r.y <= p[2] /\ p[2] < r.y + r.h

title_bar_rect(w) == Rect(w.rect.x, w.rect.y, w.rect.w, TITLE_HEIGHT)

\* a drag that follows the pointer without keeping the window on the screen
handle_drag_free(w, p, scr) ==
    IF w.dragging
    THEN [w EXCEPT !.rect.x = p[1] - w.drag_offset[1],
                   !.rect.y = p[2] - w.drag_offset[2]]
    ELSE w

\* FloatingWindow.handle_drag
handle_drag(w, p, scr) ==
    IF w.dragging
    THEN [w EXCEPT !.rect.x = Max2(0, Min2(p[1] - w.drag_offset[1], scr[1] - w.rect.w)),
                   !.rect.y = Max2(0, Min2(p[2] - w.drag_offset[2], scr[2] - w.rect.h))]
    ELSE w

Motion(p) ==
    /\ Take
    /\ IF viewer = "dash"
       THEN win' = [n \in DOMAIN win |-> handle_drag(win[n], p, screen)]
       ELSE UNCHANGED win
    /\ IF dragging_map
       THEN target_offset' = PanTarget(p) /\ pan_last' = p
       ELSE UNCHANGED <<target_offset, pan_last>>
    /\ UNCHANGED <<current_zoom, tiles, scaled_tiles_cache, offset, zoom_float, target_zoom>>
    /\ UNCHANGED <<dragging_map, drag_start, drag_offset_start>>
    /\ UNCHANGED <<running, screen, invert, logVars, windows, active_window>>

\* MOUSEBUTTONUP, button 1
ButtonUp(p) ==
    /\ Take
    /\ dragging_map' = FALSE
    /\ IF viewer = "dash"
       THEN /\ win' = [n \in DOMAIN win |-> [win[n] EXCEPT !.dragging = FALSE]]
            /\ active_window' = "none"
       ELSE UNCHANGED <<win, active_window>>
    /\ UNCHANGED <<viewVars, running, screen, invert, drag_start, drag_offset_start, pan_last>>
    /\ UNCHANGED <<logVars, windows>>

\* indices into the draw list of the windows whose title bar / rectangle holds p
TitleHits(p) == {i \in 1..Len(windows) : collidepoint(title_bar_rect(win[windows[i]]), p)}
ContentHits(p) == {i \in 1..Len(windows) : collidepoint(win[windows[i]].rect, p)}
\* indices of the log lines whose rectangle holds p
EntryHits(p) == {j \in 1..Len(entry_rects) : collidepoint(entry_rects[j].rect, p)}

\* windows.remove(w); windows.append(w)
RaiseWindow(ws, n) == SelectSeq(ws, LAMBDA x : x # n) \o <<n>>

\* FloatingWindow.handle_event_down on a title-bar hit
handle_event_down(w, p) ==
    [w EXCEPT !.dragging = TRUE,
              !.drag_offset = <<p[1] - w.rect.x, p[2] - w.rect.y>>]

\* the targets a click on log line e sets: the stored zoom, and the offset
\* that puts the stored point in the middle of the large map
RecenterTarget(e) ==
    LET s == Scale(e.z, current_zoom)
        raw == <<RoundDiv(screen[1] * Unit, 2) - MulDiv(e.x, TilePx(1, s), Unit),
                 RoundDiv(screen[2] * Unit, 2) - MulDiv(e.y, TilePx(1, s), Unit)>>
    IN  [zoom |-> e.z, unclamped |-> raw,
         offset |-> clamp_offset(raw, tiles, screen, s)]

\* the log line a press at p recentres on, 0 when there is none: the topmost
\* window holding p is the log panel and p is inside a line's rectangle
ClickedEntry(p) ==
    IF /\ TitleHits(p) = {}
       /\ ContentHits(p) # {}
       /\ windows[SetMax(ContentHits(p))] = "log"
       /\ EntryHits(p) # {}
    THEN SetMin(EntryHits(p))
    ELSE 0

\* MOUSEBUTTONDOWN, button 1, in dash.py
ButtonDownDash(p) ==
    IF TitleHits(p) # {}
    THEN LET n == windows[SetMax(TitleHits(p))]
         IN  /\ win' = [win EXCEPT ![n] = handle_event_down(win[n], p)]
             /\ active_window' = n
             /\ windows' = RaiseWindow(windows, n)
             /\ dragging_map' = FALSE
             /\ UNCHANGED <<target_offset, target_zoom, drag_start, drag_offset_start, pan_last>>
    ELSE IF ContentHits(p) # {}
    THEN /\ IF ClickedEntry(p) # 0
            THEN /\ target_zoom' = RecenterTarget(entry_rects[ClickedEntry(p)]).zoom
                 /\ target_offset' = RecenterTarget(entry_rects[ClickedEntry(p)]).offset
            ELSE UNCHANGED <<target_offset, target_zoom>>
         /\ UNCHANGED <<win, active_window, windows, dragVars>>
    ELSE /\ dragging_map' = collidepoint(Rect(0, 0, screen[1], screen[2]), p)
         /\ IF collidepoint(Rect(0, 0, screen[1], screen[2]), p)
            THEN /\ drag_start' = p
                 /\ pan_last' = p
                 /\ drag_offset_start' = target_offset
                 /\ active_window' = "none"
            ELSE UNCHANGED <<drag_start, drag_offset_start, pan_last, active_window>>
         /\ UNCHANGED <<win, windows, target_offset, target_zoom>>

\* MOUSEBUTTONDOWN, button 1, in map.py
ButtonDownMap(p) ==
    /\ dragging_map' = TRUE
    /\ drag_start' = p
    /\ pan_last' = p
    /\ drag_offset_start' = target_offset
    /\ UNCHANGED <<winVars, target_offset, target_zoom>>

ButtonDown(p) ==
    /\ Take
    /\ IF viewer = "dash" THEN ButtonDownDash(p) ELSE ButtonDownMap(p)
    /\ UNCHANGED <<current_zoom, tiles, scaled_tiles_cache, offset, zoom_float>>
    /\ UNCHANGED <<running, screen, invert, logVars>>

\* the entry K_RETURN stores while a comment is being typed
NewEntry == [x |-> map_xy[1], y |-> map_xy[2], zoom |-> zoom_float,
             comment |-> current_comment]

\* a commit that keeps only the new entry
AppendedAlone(q, e) == <<e>>

\* log_entries.append(...), markers.append(...)
Appended(q, e) == Append(q, e)

\* KEYDOWN in dash.py
KeyDownDash(k) ==
    CASE k = "i" ->
            /\ invert' = ~invert
            /\ UNCHANGED <<running, logVars>>
      [] k = "escape" ->
            /\ running' = FALSE
            /\ UNCHANGED <<invert, logVars>>
      [] k = "return" ->
            /\ IF typing_comment
               THEN /\ log_entries' = Appended(log_entries, NewEntry)
                    /\ markers' = Appended(markers, NewEntry)
                    /\ current_comment' = << >>
                    /\ typing_comment' = FALSE
               ELSE /\ typing_comment' = TRUE
                    /\ UNCHANGED <<log_entries, markers, current_comment>>
            /\ UNCHANGED <<invert, running>>
      [] OTHER ->
            /\ IF typing_comment
               THEN current_comment' =
                        IF k = "backspace"
                        THEN SubSeq(current_comment, 1, Len(current_comment) - 1)
                        ELSE Append(current_comment, k)
               ELSE UNCHANGED current_comment
            /\ UNCHANGED <<invert, running, log_entries, markers, typing_comment>>

\* KEYDOWN in map.py
KeyDownMap(k) ==
    /\ invert' = IF k = "i" THEN ~invert ELSE invert
    /\ UNCHANGED <<running, logVars>>

KeyDown(k) ==
    /\ Take
    /\ IF viewer = "dash" THEN KeyDownDash(k) ELSE KeyDownMap(k)
    /\ UNCHANGED <<viewVars, screen, dragVars, winVars>>

\* pygame.QUIT
Quit ==
    /\ Take
    /\ running' = FALSE
    /\ UNCHANGED <<viewVars, screen, invert, dragVars, logVars, winVars>>

\* pygame.VIDEORESIZE: map.py adopts the new size, dash.py has no handler
Resize(size) ==
    /\ Take
    /\ screen' = IF viewer = "map" THEN size ELSE screen
    /\ UNCHANGED <<viewVars, running, invert, dragVars, logVars, winVars>>

\* ---------------------------------------------------------------- the smoothing step

View == [offset |-> offset, target_offset |-> target_offset, zoom_float |-> zoom_float,
         target_zoom |-> target_zoom, current_zoom |-> current_zoom, tiles |-> tiles,
         cache |-> scaled_tiles_cache]

\* the swap made without looking at what load_tiles returned
SwapAlways(new_tiles) == TRUE

\* if new_tiles:
SwapAccepted(new_tiles) == DOMAIN new_tiles # {}

\* the swap made without clearing the cache
KeptCache(cache) == cache

\* scaled_tiles_cache.clear()
Cleared(cache) == << >>

\* SMOOTH ZOOM & PAN: the view after one pass of the step that ends a frame
TickView(v) ==
    LET z == ClampZoom(lerp(v.zoom_float, v.target_zoom))
        new_zoom_int == PyRound(z)
        new_tiles == load_tiles(new_zoom_int)
        moved == [v EXCEPT !.offset = <<lerp(v.offset[1], v.target_offset[1]),
                                        lerp(v.offset[2], v.target_offset[2])>>,
                           !.zoom_float = z]
    IN  IF new_zoom_int # v.current_zoom /\ SwapAccepted(new_tiles)
        THEN [moved EXCEPT !.tiles = new_tiles,
                           !.cache = Cleared(v.cache),
                           !.current_zoom = new_zoom_int]
        ELSE moved

\* a loop that is entered again whatever the flag says
WhileTrue(r) == TRUE

\* while running:
WhileRunning(r) == r

\* The end of a frame: the event loop is left, the view is smoothed, and the
\* while condition is read.
Tick ==
    /\ pc = "events"
    /\ frames_left > 0
    /\ frames_left' = frames_left - 1
    /\ pc' = IF WhileRunning(running) THEN "render" ELSE "done"
    /\ offset' = TickView(View).offset
    /\ zoom_float' = TickView(View).zoom_float
    /\ current_zoom' = TickView(View).current_zoom
    /\ tiles' = TickView(View).tiles
    /\ scaled_tiles_cache' = TickView(View).cache
    /\ UNCHANGED <<target_offset, target_zoom>>
    /\ UNCHANGED <<running, screen, invert, map_xy, entry_rects, events_left>>
    /\ UNCHANGED <<dragVars, logVars, winVars, envVars>>

Next ==
    \/ Render
    \/ \E p \in WheelPoints, y \in WheelYs : Wheel(p, y)
    \/ \E p \in Points : ButtonDown(p)
    \/ \E p \in Points : ButtonUp(p)
    \/ \E p \in Points : Motion(p)
    \/ \E k \in Keys : KeyDown(k)
    \/ Quit
    \/ \E size \in Sizes : Resize(size)
    \/ Tick

Spec == Init /\ [][Next]_vars

\* ---------------------------------------------------------------- settling

\* frames after which an undisturbed view has stopped moving
SettleSteps == 100

RECURSIVE IterateTick(_, _)
IterateTick(v, n) ==
    IF n = 0 \/ TickView(v) = v THEN v ELSE IterateTick(TickView(v), n - 1)

\* the view once the ticks that follow, with no further event, change nothing
Settle(v) == IterateTick(v, SettleSteps)

\* zoom_float has come as close to target_zoom as the smoothing step brings it
ZoomAtTarget(v) == lerp(v.zoom_float, v.target_zoom) = v.zoom_float

\* ---------------------------------------------------------------- clamp_offset on its own

\* clamp_offset called once on arguments drawn from these sets
ClampOffsets == {-2000, -300, 0, 150, 600}
ClampTileSets == {{}, (0..3) \X (0..3), (1..2) \X (1..2), (0..7) \X (0..5),
                  (2..5) \X (2..4), {<<0, 0>>, <<3, 1>>}}
ClampViews == {<<800, 600>>, <<1024, 768>>}
ClampScales == {Scale(2 * Unit, 2), Scale(3 * Unit, 2), Scale(4 * Unit, 5), Scale(2488, 2)}

InitClamp ==
    /\ viewer = "map"
    /\ disk = DiskNone
    /\ \E ox \in ClampOffsets, oy \in ClampOffsets, keys \in ClampTileSets,
          view \in ClampViews, s \in ClampScales :
            cin = [off |-> <<ox * Unit, oy * Unit>>,
                   tiles |-> [t \in keys |-> <<START_ZOOM, t[1], t[2]>>],
                   view |-> view, s |-> s]
    /\ cout = NoResult
    /\ InitSnatcher
    /\ events_left = 0
    /\ frames_left = 0
    /\ InitViewer

ClampCall ==
    /\ ~cout.done
    /\ cout' = [done |-> TRUE, off |-> clamp_offset(cin.off, cin.tiles, cin.view, cin.s)]
    /\ UNCHANGED <<viewer, disk, cin, snatcherVars, pc, running, screen, viewVars, dragVars, invert,
                   map_xy, logVars, entry_rects, winVars, events_left, frames_left>>

SpecClamp == InitClamp /\ [][ClampCall]_vars

\* ---------------------------------------------------------------- jumping to a log line

\* dash.py driven by the wheel at one point, the Return key and presses on
\* the first log line, for long enough to cross a zoom level twice
JumpEvents == 5
JumpFrames == 6

InitJump ==
    /\ viewer = "dash"
    /\ disk = DiskFull
    /\ cin = NoCall
    /\ cout = NoResult
    /\ InitSnatcher
    /\ events_left = JumpEvents
    /\ frames_left = JumpFrames
    /\ InitViewer

NextJump ==
    \/ Render
    \/ \E y \in WheelYs : Wheel(<<400, 300>>, y)
    \/ ButtonDown(<<100, 100>>)
    \/ KeyDown("return")
    \/ Tick

SpecJump == InitJump /\ [][NextJump]_vars

\* ---------------------------------------------------------------- properties

ViewNext == [offset |-> offset', target_offset |-> target_offset', zoom_float |-> zoom_float',
             target_zoom |-> target_zoom', current_zoom |-> current_zoom', tiles |-> tiles',
             cache |-> scaled_tiles_cache']

DrawOffsetOf(v) == IF viewer = "dash" THEN v.target_offset ELSE v.offset

\* a hundredth of a tile, and two pixels
WorldTol == Unit \div 100
CentreTol == 2 * Unit

Near(a, b, tol) == Abs(a - b) <= tol

\* C1: in every reachable state of both viewers MIN_ZOOM <= zoom_float <=
\* MAX_ZOOM and MIN_ZOOM <= target_zoom <= MAX_ZOOM.
C1_ZoomWithinLimits ==
    /\ MIN_ZOOM(viewer) * Unit <= zoom_float /\ zoom_float <= MAX_ZOOM * Unit
    /\ MIN_ZOOM(viewer) * Unit <= target_zoom /\ target_zoom <= MAX_ZOOM * Unit

\* o lies in [minOffset, maxOffset] of one axis; nothing is asked of an axis
\* whose range is empty (the map narrower than the view)
InRange(o, idx, ext, s) ==
    MinOff(idx, ext, s) <= MaxOff(idx, s) =>
        (MinOff(idx, ext, s) <= o /\ o <= MaxOff(idx, s))

TargetClamped ==
    DOMAIN tiles # {} =>
        /\ InRange(target_offset[1], TileXs(DOMAIN tiles), screen[1],
                   Scale(target_zoom, current_zoom))
        /\ InRange(target_offset[2], TileYs(DOMAIN tiles), screen[2],
                   Scale(target_zoom, current_zoom))

PanOrZoomStep ==
    \/ \E p \in WheelPoints, y \in WheelYs : Wheel(p, y)
    \/ \E p \in Points : dragging_map /\ Motion(p)

\* C2: with a non-empty pyramid, after every wheel event and every drag
\* motion, and after every tick that follows them (a tick that swaps the level
\* included), target_offset lies in clamp_offset's range for the scale
\* target_zoom / current_zoom and the current tiles.
C2_TargetOffsetClamped ==
    [][(PanOrZoomStep \/ (Tick /\ TargetClamped)) => TargetClamped']_vars

\* C3: a tick that finds round(zoom_float) != current_zoom and no tile for
\* the new level changes neither current_zoom nor tiles nor any cache entry.
C3_EmptySwapRejected ==
    [][(/\ Tick
        /\ PyRound(zoom_float') # current_zoom
        /\ DOMAIN load_tiles(PyRound(zoom_float')) = {})
       => UNCHANGED <<current_zoom, tiles, scaled_tiles_cache>>]_vars

\* a tick has just rejected a swap and the cache it kept holds entries
C3_Witness ==
    /\ pc = "render"
    /\ frames_left < MaxFrames
    /\ PyRound(zoom_float) # current_zoom
    /\ DOMAIN load_tiles(PyRound(zoom_float)) = {}
    /\ DOMAIN tiles # {}
    /\ DOMAIN scaled_tiles_cache # {}

\* every cache entry was resampled from the tile the active snapshot holds at
\* its cell, and the active snapshot is the one of current_zoom
CacheFromActive ==
    /\ tiles = load_tiles(current_zoom)
    /\ \A k \in DOMAIN scaled_tiles_cache :
        /\ <<k[1], k[2]>> \in DOMAIN tiles
        /\ scaled_tiles_cache[k].src = tiles[<<k[1], k[2]>>]

\* C4: every cache entry a render pass can see was resampled from a tile of
\* the active snapshot; when current_zoom changes, tiles changes with it in
\* the same step and the cache is empty right after.
C4_CacheOfActiveLevel ==
    [][/\ CacheFromActive'
       /\ current_zoom' # current_zoom =>
            /\ tiles' = load_tiles(current_zoom')
            /\ scaled_tiles_cache' = << >>]_vars

\* the level has been swapped and a later render pass has filled the cache
C4_Witness ==
    /\ current_zoom # START_ZOOM
    /\ DOMAIN scaled_tiles_cache # {}

\* C5: for a wheel step at a, taken in a view at rest and not cut by the
\* clamp, the world coordinate under a before the event equals, within
\* WorldTol, the one under a once zoom_float has reached target_zoom.
C5_AnchorPreserved ==
    [][\A p \in WheelPoints, y \in WheelYs :
        (/\ Wheel(p, y)
         /\ target_zoom' # target_zoom
         /\ DOMAIN tiles # {}
         /\ TickView(View) = View
         /\ WheelTargets(p, y).unclamped = WheelTargets(p, y).offset)
        => LET v == Settle(ViewNext)
               s == Scale(v.zoom_float, v.current_zoom)
           IN  ZoomAtTarget(v) =>
                 \A i \in 1..2 :
                    Near(ScreenToWorld(p[i], DrawOffset[i], zoom_scale),
                         ScreenToWorld(p[i], DrawOffsetOf(v)[i], s), WorldTol)]_vars

\* C6: after a press on a stored log line whose offset the clamp leaves
\* alone, once the ticks have settled with the zoom at its target, the stored
\* world point is drawn at the centre pixel of the large map, within CentreTol.
C6_RecenterOnEntry ==
    [][\A p \in Points :
        (/\ viewer = "dash"
         /\ ButtonDown(p)
         /\ ClickedEntry(p) # 0
         /\ RecenterTarget(entry_rects[ClickedEntry(p)]).unclamped
                = RecenterTarget(entry_rects[ClickedEntry(p)]).offset)
        => LET e == entry_rects[ClickedEntry(p)]
               v == Settle(ViewNext)
               s == Scale(v.zoom_float, v.current_zoom)
           IN  ZoomAtTarget(v) =>
                 /\ Near(WorldToScreen(e.x, v.target_offset[1], s),
                         Crosshair(screen)[1] * Unit, CentreTol)
                 /\ Near(WorldToScreen(e.y, v.target_offset[2], s),
                         Crosshair(screen)[2] * Unit, CentreTol)]_vars

\* what clamp_offset was called on, axis by axis
ClampIdx(i) == IF i = 1 THEN TileXs(DOMAIN cin.tiles) ELSE TileYs(DOMAIN cin.tiles)
ClampMin(i) == MinOff(ClampIdx(i), cin.view[i], cin.s)
ClampMax(i) == MaxOff(ClampIdx(i), cin.s)

\* Scenario A: tiles 0..3 x 0..3, viewport 800x600, scale 1, input (-2000, -2000)
ScenarioA ==
    /\ DOMAIN cin.tiles = (0..3) \X (0..3)
    /\ cin.view = <<800, 600>>
    /\ cin.s = Scale(2 * Unit, 2)
    /\ cin.off = <<-2000 * Unit, -2000 * Unit>>

\* C7: for a non-empty pyramid and an axis on which the scaled map is at
\* least as long as the viewport, clamp_offset returns a value between
\* minOffset and maxOffset, and the input itself when it is already there;
\* Scenario A returns (-224, -424), the map's far corner on the viewport's.
C7_ClampIntoRange ==
    (cout.done /\ DOMAIN cin.tiles # {}) =>
        /\ \A i \in 1..2 :
            MapExtent(ClampIdx(i), cin.s) >= cin.view[i] * Unit =>
                /\ ClampMin(i) <= cout.off[i]
                /\ cout.off[i] <= ClampMax(i)
                /\ (ClampMin(i) <= cin.off[i] /\ cin.off[i] <= ClampMax(i))
                        => cout.off[i] = cin.off[i]
        /\ ScenarioA => cout.off = <<-224 * Unit, -424 * Unit>>

\* Scenario A has been clamped
C7_Witness ==
    /\ cout.done
    /\ ScenarioA
    /\ cout.off # cin.off

\* C8: on an axis whose range is empty (minOffset > maxOffset) clamp_offset
\* returns the offset that centres the map on that axis, whatever the input.
C8_DegenerateCentred ==
    (cout.done /\ DOMAIN cin.tiles # {}) =>
        \A i \in 1..2 :
            ClampMin(i) > ClampMax(i) =>
                Near(2 * cout.off[i], ClampMin(i) + ClampMax(i), 2)

\* C9: called with an empty tiles snapshot, clamp_offset returns the offset
\* it was given, for every offset, viewport size and scale.
C9_EmptyUnclamped ==
    (cout.done /\ DOMAIN cin.tiles = {}) => cout.off = cin.off

\* an offset far outside any map has come back from the empty snapshot
C9_Witness ==
    /\ cout.done
    /\ DOMAIN cin.tiles = {}
    /\ cin.off = <<-2000 * Unit, 600 * Unit>>
    /\ cout.off = cin.off

\* C10: a tick taken where offset = target_offset and zoom_float =
\* target_zoom, the initial state of each viewer included, changes none of
\* offset, zoom_float, current_zoom, tiles and scaled_tiles_cache.
C10_TickIdempotent ==
    [][(Tick /\ offset = target_offset /\ zoom_float = target_zoom)
       => UNCHANGED <<offset, zoom_float, current_zoom, tiles, scaled_tiles_cache>>]_vars

\* half a pixel
RoundTripTol == Unit \div 2

\* C11: in every reachable state of dash.py, a screen point taken to world
\* coordinates by the crosshair-readout formula and back by the marker
\* placement formula comes back to itself within RoundTripTol; the two use
\* the same offset and the same scale.
C11_RoundTrip ==
    viewer = "dash" =>
        /\ ReadoutOffset = MarkerOffset
        /\ zoom_scale = MarkerScale
        /\ \A p \in Points \cup {Crosshair(screen)} : \A i \in 1..2 :
            Near(WorldToScreen(ScreenToWorld(p[i], ReadoutOffset[i], zoom_scale),
                               MarkerOffset[i], MarkerScale),
                 p[i] * Unit, RoundTripTol)

\* dash.py panned and mid-zoom: the offset is not zero and the scale not 1
C11_Witness ==
    /\ viewer = "dash"
    /\ target_offset[1] # 0
    /\ target_offset[2] # 0
    /\ zoom_float # current_zoom * Unit
    /\ pc = "events"

\* C12: a render pass calls smoothscale once for each key it adds to the
\* cache and never for a key the cache already holds, whose stored image it
\* leaves in place: a tile asked for twice at the same zoom between two level
\* swaps is resampled once.
C12_ResampledOnce ==
    [][Render =>
        /\ \A k \in DOMAIN scaled_tiles_cache :
            /\ k \in DOMAIN scaled_tiles_cache'
            /\ scaled_tiles_cache'[k] = scaled_tiles_cache[k]
        /\ ResampleCalls
            = Cardinality(DOMAIN scaled_tiles_cache' \ DOMAIN scaled_tiles_cache)]_vars

\* map.py has rendered a second frame at the zoom of the first, with tiles
C12_Witness ==
    /\ viewer = "map"
    /\ pc = "events"
    /\ frames_left < MaxFrames
    /\ zoom_float = START_ZOOM * Unit
    /\ target_zoom = zoom_float
    /\ DOMAIN scaled_tiles_cache # {}

\* C13: in the state a frame is rendered from, every visited tile, every
\* marker and the crosshair readout are placed with the animated offset:
\* px = int(worldX * TILE_SIZE * (zoom_float / current_zoom) + offset_x), and
\* likewise for y.
C13_PlacedAtAnimatedOffset ==
    pc = "render" =>
        /\ \A c \in VisitedCells(tiles, DrawOffset, screen, zoom_scale) :
            TilePlace(c) = <<PyInt(TilePx(c[1], zoom_scale) + offset[1]),
                             PyInt(TilePx(c[2], zoom_scale) + offset[2])>>
        /\ viewer = "dash" =>
            /\ \A i \in 1..Len(markers) :
                MarkerPx(markers[i])
                    = <<PyInt(WorldToScreen(markers[i].x, offset[1], zoom_scale)),
                        PyInt(WorldToScreen(markers[i].y, offset[2], zoom_scale))>>
            /\ Readout = <<ScreenToWorld(Crosshair(screen)[1], offset[1], zoom_scale),
                           ScreenToWorld(Crosshair(screen)[2], offset[2], zoom_scale)>>

\* ---------------------------------------------------------------- panning

\* both viewers on the full pyramid, driven by presses, motions and the wheel
\* for long enough to pan twice in one drag
PanEvents == 3
PanFrames == 2

InitPan ==
    /\ viewer \in Viewers
    /\ disk = DiskFull
    /\ cin = NoCall
    /\ cout = NoResult
    /\ InitSnatcher
    /\ events_left = PanEvents
    /\ frames_left = PanFrames
    /\ InitViewer

NextPan ==
    \/ Render
    \/ \E p \in Points : ButtonDown(p)
    \/ \E p \in Points : Motion(p)
    \/ \E y \in WheelYs : Wheel(<<400, 300>>, y)
    \/ Tick

SpecPan == InitPan /\ [][NextPan]_vars

\* C14: every motion event of a map drag sets target_offset to the clamp, at
\* scale zoom_float / current_zoom, of the target_offset it found plus the
\* pointer's displacement since the previous pan step of the drag.
C14_PanAddsDelta ==
    [][\A p \in Points :
        (Motion(p) /\ dragging_map) =>
            target_offset' =
                clamp_offset(<<target_offset[1] + (p[1] - pan_last[1]) * Unit,
                               target_offset[2] + (p[2] - pan_last[2]) * Unit>>,
                             tiles, screen, zoom_scale)]_vars

\* ---------------------------------------------------------------- the visible range on its own

\* the loops of one render pass run once on arguments drawn from these sets;
\* a directory named "-1" gives a tile a negative index
RangeTileSets == {{}, (0..3) \X (0..3), (-1..2) \X (-1..2), (-4..-1) \X (0..3),
                  (2..5) \X (2..4), {<<0, 0>>, <<3, 1>>}}

InitRange ==
    /\ viewer = "map"
    /\ disk = DiskNone
    /\ \E ox \in ClampOffsets, oy \in ClampOffsets, keys \in RangeTileSets,
          view \in ClampViews, s \in ClampScales :
            cin = [off |-> <<ox * Unit, oy * Unit>>,
                   tiles |-> [t \in keys |-> <<START_ZOOM, t[1], t[2]>>],
                   view |-> view, s |-> s]
    /\ cout = NoResult
    /\ InitSnatcher
    /\ events_left = 0
    /\ frames_left = 0
    /\ InitViewer

RangeCall ==
    /\ ~cout.done
    /\ cout' = [done |-> TRUE, off |-> cin.off,
                cells |-> VisitedCells(cin.tiles, cin.off, cin.view, cin.s)]
    /\ UNCHANGED <<viewer, disk, cin, snatcherVars, pc, running, screen, viewVars, dragVars, invert,
                   map_xy, logVars, entry_rects, winVars, events_left, frames_left>>

SpecRange == InitRange /\ [][RangeCall]_vars

\* the scaled rectangle of cell c meets the surface
OnSurface(c, off, size, s) ==
    \A i \in 1..2 :
        /\ TilePx(c[i], s) + off[i] < size[i] * Unit
        /\ TilePx(c[i] + 1, s) + off[i] > 0

\* C15: for an offset the clamp accepts, every tile of the snapshot whose
\* scaled rectangle meets the viewport is among the cells the render loops
\* visit, whatever the sign of the tile indices and of the offset.
C15_VisibleTilesVisited ==
    (cout.done /\ cin.off = clamp_offset(cin.off, cin.tiles, cin.view, cin.s)) =>
        \A c \in DOMAIN cin.tiles :
            OnSurface(c, cin.off, cin.view, cin.s) => c \in cout.cells

\* ---------------------------------------------------------------- the log

\* dash.py on the full pyramid, driven by the keyboard, the wheel and the
\* pointer for long enough to commit two entries
LogEvents == 4
LogFrames == 2

InitLog ==
    /\ viewer = "dash"
    /\ disk = DiskFull
    /\ cin = NoCall
    /\ cout = NoResult
    /\ InitSnatcher
    /\ events_left = LogEvents
    /\ frames_left = LogFrames
    /\ InitViewer

NextLog ==
    \/ Render
    \/ \E k \in Keys : KeyDown(k)
    \/ Wheel(<<400, 300>>, 1)
    \/ ButtonDown(<<100, 100>>)
    \/ ButtonUp(<<100, 100>>)
    \/ Motion(<<700, 500>>)
    \/ Quit
    \/ Tick

SpecLog == InitLog /\ [][NextLog]_vars

\* q is an initial part of r
IsPrefix(q, r) == Len(q) <= Len(r) /\ SubSeq(r, 1, Len(q)) = q

\* Return pressed in dash.py while a comment is being typed
Commit == viewer = "dash" /\ typing_comment /\ KeyDown("return")

\* C16: a commit appends one entry to log_entries and the same entry to
\* markers, whatever the text and the coordinates; every other step leaves
\* both lists as they are; so the lists have the same length and the earlier
\* list is an initial part of the later one.
C16_AppendOnly ==
    [][/\ IsPrefix(log_entries, log_entries')
       /\ IsPrefix(markers, markers')
       /\ Len(log_entries') = Len(markers')
       /\ \A i \in 1..Len(log_entries') : markers'[i] = log_entries'[i]
       /\ Commit => Len(log_entries') = Len(log_entries) + 1
       /\ ~Commit => (log_entries' = log_entries /\ markers' = markers)]_vars

\* two entries with the same coordinates, the later one with empty text
C16_Witness ==
    /\ Len(log_entries) = 2
    /\ log_entries[1].x = log_entries[2].x
    /\ log_entries[1].y = log_entries[2].y
    /\ log_entries[2].comment = << >>

\* a floating panel of dash.py has its dragging flag set
PanelDragged == viewer = "dash" /\ \E n \in DOMAIN win : win[n].dragging

\* C17: a pointer-motion event that arrives while a floating panel is being
\* dragged changes none of target_offset, offset, target_zoom, zoom_float and
\* current_zoom, whatever presses, motions and releases came before.
C17_PanelDragKeepsView ==
    [][\A p \in Points :
        (Motion(p) /\ PanelDragged) =>
            UNCHANGED <<target_offset, offset, target_zoom, zoom_float, current_zoom>>]_vars

\* the panel a press at p lands on: the topmost one whose title bar holds p,
\* or else the topmost one whose rectangle holds p
PressedPanel(p) ==
    IF TitleHits(p) # {} THEN windows[SetMax(TitleHits(p))]
    ELSE windows[SetMax(ContentHits(p))]

\* C18: after a press on a panel's title bar or inside its content area that
\* panel is the last element of the draw list, the other panels keep their
\* order, and the list holds each panel once.
C18_PressedPanelOnTop ==
    [][\A p \in Points :
        (viewer = "dash" /\ ButtonDown(p) /\ ContentHits(p) # {}) =>
            /\ windows' = RaiseWindow(windows, PressedPanel(p))
            /\ Len(windows') = Cardinality(DOMAIN win)
            /\ {windows'[i] : i \in 1..Len(windows')} = DOMAIN win]_vars

\* the levels at most half a level away from zoom value z
NearestLevels(z) == {l \in Levels : 2 * Abs(z - l * Unit) <= Unit}

\* C19: after every tick current_zoom is the level nearest to zoom_float,
\* unless load_tiles finds no tile for that level and current_zoom is what it
\* was; and tiles is at all times what load_tiles returns for current_zoom.
C19_LevelFollowsZoom ==
    /\ tiles = load_tiles(current_zoom)
    /\ [][/\ tiles' = load_tiles(current_zoom')
          /\ Tick =>
                \/ current_zoom' \in NearestLevels(zoom_float')
                \/ /\ current_zoom' = current_zoom
                   /\ \E l \in NearestLevels(zoom_float') :
                        DOMAIN load_tiles(l) = {}]_vars

\* a tick has just moved current_zoom to the level nearest to zoom_float
C19_Witness ==
    /\ pc = "render"
    /\ frames_left < MaxFrames
    /\ current_zoom # START_ZOOM
    /\ current_zoom \in NearestLevels(zoom_float)
    /\ DOMAIN tiles # {}

\* the cells of level l whose names parse and whose image decodes
GoodCells(l) == {<<e.x, e.y>> : e \in {f \in disk[l].entries : f.kind = "ok"}}

Contracted(a, a2, b) ==
    /\ Abs(b - a2) <= Abs(b - a)
    /\ Abs(b - a) > SMOOTH_DEN => Abs(b - a2) < Abs(b - a)
    /\ Abs(SMOOTH_DEN * Abs(b - a2) - (SMOOTH_DEN - 1) * Abs(b - a)) <= SMOOTH_DEN

\* C22: every smoothing step takes zoom_float and both components of offset
\* nearer to target_zoom and target_offset, the remaining distance being
\* multiplied by 1 - SMOOTH_SPEED, and from every reachable state the ticks
\* that follow without further events bring zoom_float to target_zoom.
C22_Converges ==
    /\ ZoomAtTarget(Settle(View))
    /\ [][Tick => /\ Contracted(zoom_float, zoom_float', target_zoom)
                  /\ Contracted(offset[1], offset'[1], target_offset[1])
                  /\ Contracted(offset[2], offset'[2], target_offset[2])]_vars

\* ---------------------------------------------------------------- level switches on a pyramid

\* either viewer on the pyramid, driven by the wheel at one point and the
\* Return key, for long enough to cross a level with a marker stored
SwitchEvents == 4
SwitchFrames == 6

InitSwitch ==
    /\ viewer \in Viewers
    /\ disk = DiskPyramid
    /\ cin = NoCall
    /\ cout = NoResult
    /\ InitSnatcher
    /\ events_left = SwitchEvents
    /\ frames_left = SwitchFrames
    /\ InitViewer

NextSwitch ==
    \/ Render
    \/ \E y \in WheelYs : Wheel(<<400, 300>>, y)
    \/ KeyDown("return")
    \/ Tick

SpecSwitch == InitSwitch /\ [][NextSwitch]_vars

\* the rectangle of the screen the tiles t cover when drawn at scale s and
\* offset o: the left and top edge of the first cell, the right and bottom
\* edge of the last one, in whole pixels
MapRect(t, s, o) ==
    [x0 |-> PyInt(TilePx(SetMin(TileXs(DOMAIN t)), s) + o[1]),
     x1 |-> PyInt(TilePx(SetMax(TileXs(DOMAIN t)) + 1, s) + o[1]),
     y0 |-> PyInt(TilePx(SetMin(TileYs(DOMAIN t)), s) + o[2]),
     y1 |-> PyInt(TilePx(SetMax(TileYs(DOMAIN t)) + 1, s) + o[2])]

\* where marker m stands on the imagery: its distance from the left and top
\* edge of the map rectangle in thousandths of the rectangle's width and height
MarkerOnMap(m, t, s, o) ==
    LET r == MapRect(t, s, o)
    IN  <<((PyInt(WorldToScreen(m.x, o[1], s)) - r.x0) * Unit) \div (r.x1 - r.x0),
          ((PyInt(WorldToScreen(m.y, o[2], s)) - r.y0) * Unit) \div (r.y1 - r.y0)>>

\* two pixels, and a hundredth of the map's side
RectTol == CentreTol \div Unit
OnMapTol == Unit \div 100

\* C23: at a tick that changes current_zoom, the frame after the tick shows the
\* map on the same rectangle of the screen, and every stored marker at the
\* same place of the imagery, as the same frame drawn with the level and the
\* tiles of before the tick.
C23_SwitchConsistent ==
    [][(Tick /\ current_zoom' # current_zoom /\ DOMAIN tiles # {})
       => LET o == DrawOffsetOf(ViewNext)
              before == Scale(zoom_float', current_zoom)
              after == Scale(zoom_float', current_zoom')
          IN  /\ \A e \in {"x0", "x1", "y0", "y1"} :
                    Near(MapRect(tiles, before, o)[e], MapRect(tiles', after, o)[e], RectTol)
              /\ \A i \in 1..Len(markers) :
                    /\ Near(MarkerOnMap(markers[i], tiles, before, o)[1],
                            MarkerOnMap(markers[i], tiles', after, o)[1], OnMapTol)
                    /\ Near(MarkerOnMap(markers[i], tiles, before, o)[2],
                            MarkerOnMap(markers[i], tiles', after, o)[2], OnMapTol)]_vars

\* ---------------------------------------------------------------- a zoom animation run to its end

\* either viewer with the wheel turned once at one point, for as many frames
\* as the animation takes to come within a hundredth of its target
CacheEvents == 1
CacheFrames == 22

InitCache ==
    /\ viewer \in Viewers
    /\ disk = DiskFull
    /\ cin = NoCall
    /\ cout = NoResult
    /\ InitSnatcher
    /\ events_left = CacheEvents
    /\ frames_left = CacheFrames
    /\ InitViewer

NextCache ==
    \/ Render
    \/ \E y \in WheelYs : Wheel(<<400, 300>>, y)
    \/ Tick

SpecCache == InitCache /\ [][NextCache]_vars

\* the keys a frame asks the cache for: those of the pass onto the screen
\* and, in dash.py, those of the pass onto the mini map
FrameKeys ==
    RequestedKeys(tiles, DrawOffset, screen, zoom_float, zoom_scale)
        \cup (IF viewer = "dash"
              THEN RequestedKeys(tiles, DrawOffset, MiniSize, zoom_float, zoom_scale)
              ELSE {})

\* C24: every image a frame takes from scaled_tiles_cache has the side
\* int(TILE_SIZE * zoom_float / current_zoom) of that frame, the scale its
\* tiles are positioned with.
C24_CachedSizeMatchesScale ==
    [][Render => \A k \in FrameKeys :
                    scaled_tiles_cache'[k].size = PyInt(TilePx(1, zoom_scale))]_vars

\* the things of dash.py a pointer motion would move in this state
Dragged ==
    (IF dragging_map THEN {"map"} ELSE {}) \cup {n \in DOMAIN win : win[n].dragging}

\* C29: in every reachable state of dash.py at most one of dragging_map,
\* small_window.dragging and log_window.dragging is true.
C29_OneDragAtATime == viewer = "dash" => Cardinality(Dragged) <= 1

\* ---------------------------------------------------------------- presses on overlapping panels

\* dash.py driven by the left button and the pointer at four points: the log
\* panel's title bar, the mini map's title bar, a point above it from which a
\* dragged log panel covers that title bar with its content area, and a point
\* in the lower right corner of the screen
PressPoints == {<<100, 70>>, <<800, 70>>, <<800, 40>>, <<1000, 750>>}
PressEvents == 4
PressFrames == 2

InitPress ==
    /\ viewer = "dash"
    /\ disk = DiskSmall
    /\ cin = NoCall
    /\ cout = NoResult
    /\ InitSnatcher
    /\ events_left = PressEvents
    /\ frames_left = PressFrames
    /\ InitViewer

NextPress ==
    \/ Render
    \/ \E p \in PressPoints : ButtonDown(p)
    \/ \E p \in PressPoints : ButtonUp(p)
    \/ \E p \in PressPoints : Motion(p)
    \/ Tick

SpecPress == InitPress /\ [][NextPress]_vars

\* the panel drawn last among those whose rectangle holds p
TopPanelAt(p) == windows[SetMax(ContentHits(p))]

\* C30: a press at a point covered by a panel is handled only by the panel
\* drawn last among those holding the point: no other panel starts dragging
\* or is raised by it, and the press starts no map pan.
C30_PressGoesToTopPanel ==
    [][\A p \in PressPoints :
        (viewer = "dash" /\ ButtonDown(p) /\ ContentHits(p) # {}) =>
            /\ \A n \in DOMAIN win \ {TopPanelAt(p)} :
                    win'[n].dragging => win[n].dragging
            /\ windows' # windows => windows' = RaiseWindow(windows, TopPanelAt(p))
            /\ dragging_map' => dragging_map]_vars

\* ---------------------------------------------------------------- runSnatcher.py

\* bounds of the exploration: calls of schedule_download, and seconds of clock
MaxRequests == 3
MaxTime == 1

\* monitor_idle(timeout=30)
IdleTimeout == 30

\* every variable of the viewers
viewerVars == <<viewer, disk, cin, cout, pc, running, screen, viewVars, dragVars, invert,
                map_xy, logVars, entry_rects, winVars, events_left, frames_left>>

\* the downloader alone: the viewers are not running
InitSnatch ==
    /\ viewer = "map"
    /\ disk = DiskNone
    /\ cin = NoCall
    /\ cout = NoResult
    /\ InitSnatcher
    /\ events_left = 0
    /\ frames_left = 0
    /\ InitViewer

\* a lock taken without waiting for its holder
CanAcquireAlways(l) == TRUE

\* with lock: the block is entered when no thread holds the lock
CanAcquire(l) == l = "free"

\* a second passes
ClockTick ==
    /\ now < MaxTime
    /\ now' = now + 1
    /\ UNCHANGED <<_downloaded, queue, worker, lock, last_tile_time, monitor, main_pc,
                   browser, captured, fetched, written, printed, viewerVars>>

\* main() up to the listening loop: the monitor thread is started, the
\* browser launched, the request handler installed and the page opened
MainStart ==
    /\ main_pc = "start"
    /\ main_pc' = "listening"
    /\ monitor' = [monitor EXCEPT !.pc = "sleeping"]
    /\ browser' = "open"
    /\ UNCHANGED <<_downloaded, queue, worker, lock, last_tile_time, now, captured,
                   fetched, written, printed, viewerVars>>

\* the page requests a URL under BASE_PREFIX: schedule_download(request.url)
Request(u) ==
    /\ main_pc = "listening"
    /\ browser = "open"
    /\ Len(captured) < MaxRequests
    /\ captured' = Append(captured, u)
    /\ queue' = Append(queue, u)
    /\ UNCHANGED <<_downloaded, worker, lock, last_tile_time, now, monitor, main_pc,
                   browser, fetched, written, printed, viewerVars>>

\* the user closes the browser window
CloseBrowser ==
    /\ browser = "open"
    /\ browser' = "closed"
    /\ UNCHANGED <<_downloaded, queue, worker, lock, last_tile_time, now, monitor,
                   main_pc, captured, fetched, written, printed, viewerVars>>

\* Ctrl-C while main sleeps in its loop: the only way out of while True
KeyboardInterrupt ==
    /\ main_pc = "listening"
    /\ main_pc' = "closing"
    /\ printed' = printed \cup {"Exiting..."}
    /\ UNCHANGED <<_downloaded, queue, worker, lock, last_tile_time, now, monitor,
                   browser, captured, fetched, written, viewerVars>>

\* browser.close()
MainClose ==
    /\ main_pc = "closing"
    /\ main_pc' = "shutdown"
    /\ browser' = "closed"
    /\ UNCHANGED <<_downloaded, queue, worker, lock, last_tile_time, now, monitor,
                   captured, fetched, written, printed, viewerVars>>

\* executor.shutdown(wait=True) returns once every submitted task has run,
\* and main prints its last line
MainShutdown ==
    /\ main_pc = "shutdown"
    /\ queue = << >>
    /\ \A w \in Workers : worker[w].pc = "idle"
    /\ main_pc' = "done"
    /\ printed' = printed \cup {"Done."}
    /\ UNCHANGED <<_downloaded, queue, worker, lock, last_tile_time, now, monitor,
                   browser, captured, fetched, written, viewerVars>>

\* an idle worker thread takes the oldest submitted task
WorkerStart(w) ==
    /\ worker[w].pc = "idle"
    /\ queue # << >>
    /\ worker' = [worker EXCEPT ![w] = [pc |-> "lock", url |-> Head(queue)]]
    /\ queue' = Tail(queue)
    /\ UNCHANGED <<_downloaded, lock, last_tile_time, now, monitor, main_pc, browser,
                   captured, fetched, written, printed, viewerVars>>

\* download_tile: with lock:
WorkerAcquire(w) ==
    /\ worker[w].pc = "lock"
    /\ CanAcquire(lock)
    /\ lock' = w
    /\ worker' = [worker EXCEPT ![w].pc = "test"]
    /\ UNCHANGED <<_downloaded, queue, last_tile_time, now, monitor, main_pc, browser,
                   captured, fetched, written, printed, viewerVars>>

\* if url in _downloaded: return (leaving the block releases the lock)
WorkerTest(w) ==
    /\ worker[w].pc = "test"
    /\ IF worker[w].url \in _downloaded
       THEN /\ worker' = [worker EXCEPT ![w] = [pc |-> "idle", url |-> "none"]]
            /\ lock' = "free"
       ELSE /\ worker' = [worker EXCEPT ![w].pc = "add"]
            /\ UNCHANGED lock
    /\ UNCHANGED <<_downloaded, queue, last_tile_time, now, monitor, main_pc, browser,
                   captured, fetched, written, printed, viewerVars>>

\* _downloaded.add(url), the end of the block, and the match of the URL
\* against _tile_path_re: a URL that does not match is dropped
WorkerAdd(w) ==
    /\ worker[w].pc = "add"
    /\ _downloaded' = _downloaded \cup {worker[w].url}
    /\ lock' = "free"
    /\ worker' = IF Matches(worker[w].url)
                 THEN [worker EXCEPT ![w].pc = "get"]
                 ELSE [worker EXCEPT ![w] = [pc |-> "idle", url |-> "none"]]
    /\ UNCHANGED <<queue, last_tile_time, now, monitor, main_pc, browser, captured,
                   fetched, written, printed, viewerVars>>

\* requests.get and the write of the file: either it succeeds, or an
\* exception is caught, "Failed" is printed and the task ends
WorkerGet(w, ok) ==
    /\ worker[w].pc = "get"
    /\ fetched' = [fetched EXCEPT ![worker[w].url] = @ + 1]
    /\ IF ok
       THEN /\ written' = [written EXCEPT ![worker[w].url] = @ + 1]
            /\ worker' = [worker EXCEPT ![w].pc = "stamp"]
       ELSE /\ worker' = [worker EXCEPT ![w] = [pc |-> "idle", url |-> "none"]]
            /\ UNCHANGED written
    /\ UNCHANGED <<_downloaded, queue, lock, last_tile_time, now, monitor, main_pc,
                   browser, captured, printed, viewerVars>>

\* with lock: last_tile_time = time.time()
WorkerStamp(w) ==
    /\ worker[w].pc = "stamp"
    /\ CanAcquire(lock)
    /\ last_tile_time' = now
    /\ worker' = [worker EXCEPT ![w] = [pc |-> "idle", url |-> "none"]]
    /\ UNCHANGED <<_downloaded, queue, lock, now, monitor, main_pc, browser, captured,
                   fetched, written, printed, viewerVars>>

\* monitor_idle after its sleep: last_tile_time is assigned in the function
\* and not declared global, so the name is a local one; reading it before it
\* is assigned raises UnboundLocalError, which ends the thread
MonitorWake ==
    /\ monitor.pc = "sleeping"
    /\ CanAcquire(lock)
    /\ IF ~monitor.bound
       THEN /\ monitor' = [monitor EXCEPT !.pc = "dead"]
            /\ UNCHANGED printed
       ELSE IF now - monitor.last_tile_time > IdleTimeout
       THEN /\ printed' = printed \cup {"No new tiles"}
            /\ monitor' = [monitor EXCEPT !.bound = TRUE, !.last_tile_time = now]
       ELSE UNCHANGED <<monitor, printed>>
    /\ UNCHANGED <<_downloaded, queue, worker, lock, last_tile_time, now, main_pc,
                   browser, captured, fetched, written, viewerVars>>

WorkerStep(w) ==
    \/ WorkerStart(w)
    \/ WorkerAcquire(w)
    \/ WorkerTest(w)
    \/ WorkerAdd(w)
    \/ \E ok \in BOOLEAN : WorkerGet(w, ok)
    \/ WorkerStamp(w)

NextSnatch ==
    \/ ClockTick
    \/ MainStart
    \/ \E u \in Urls : Request(u)
    \/ CloseBrowser
    \/ KeyboardInterrupt
    \/ MainClose
    \/ MainShutdown
    \/ \E w \in Workers : WorkerStep(w)
    \/ MonitorWake

SpecSnatch == InitSnatch /\ [][NextSnatch]_vars

\* the threads run: main, the workers and the monitor each take the steps
\* they can take; the user and the page are under no obligation
SpecSnatchFair ==
    /\ SpecSnatch
    /\ WF_vars(MainStart \/ MainClose \/ MainShutdown)
    /\ \A w \in Workers : WF_vars(WorkerStep(w))
    /\ WF_vars(MonitorWake)

\* the worker threads inside the with lock: block of download_tile
InBlock == {w \in Workers : worker[w].pc \in {"test", "add"}}

\* C25: whatever the interleaving of the worker threads and however often a
\* URL is scheduled, each URL is fetched at most once and written at most
\* once: at most one thread is between the membership test and the insertion
\* into _downloaded, and it holds the lock.
C25_FetchedAtMostOnce ==
    /\ \A u \in Urls : fetched[u] <= 1 /\ written[u] <= 1
    /\ Cardinality(InBlock) <= 1
    /\ \A w \in InBlock : lock = w

\* two threads run download_tile for the same URL: one has fetched and
\* written it, the other is at the membership test
C25_Witness ==
    \E w1, w2 \in Workers :
        /\ worker[w1].url = worker[w2].url
        /\ worker[w1].pc = "stamp"
        /\ worker[w2].pc = "test"
        /\ fetched[worker[w1].url] = 1

\* C26: once started the monitor thread keeps running, and an idle period
\* longer than the timeout (and the second between two polls) does not pass
\* without the no-new-tiles alert having been printed.
C26_MonitorAlerts ==
    /\ monitor.pc # "dead"
    /\ (monitor.pc # "unstarted" /\ now - last_tile_time > IdleTimeout + 1)
            => "No new tiles" \in printed

\* C27: once the user has closed the browser, main eventually leaves its
\* listening loop, shuts the executor down and prints the Done message.
C27_CloseStops ==
    (browser = "closed") ~> (main_pc = "done" /\ "Done." \in printed)

\* C28: when the Done message has been printed, every URL that was passed to
\* schedule_download has been written to the tile store, and no download
\* task is pending or running.
C28_DoneMeansAllWritten ==
    "Done." \in printed =>
        /\ \A i \in 1..Len(captured) : written[captured[i]] >= 1
        /\ queue = << >>
        /\ \A w \in Workers : worker[w].pc = "idle"

\* rectangle r lies entirely within a screen of size scr
OnScreen(r, scr) ==
    /\ 0 <= r.x /\ r.x <= scr[1] - r.w
    /\ 0 <= r.y /\ r.y <= scr[2] - r.h

\* C31: after a motion event every dragged panel that is no larger than the
\* screen lies entirely within the screen, with the size it had, and the
\* rectangle of every panel that is not dragged is what it was.
C31_DraggedPanelOnScreen ==
    [][\A p \in PressPoints :
        (viewer = "dash" /\ Motion(p)) =>
            \A n \in DOMAIN win :
                IF win[n].dragging
                THEN (win[n].rect.w <= screen[1] /\ win[n].rect.h <= screen[2]) =>
                        /\ OnScreen(win'[n].rect, screen)
                        /\ win'[n].rect.w = win[n].rect.w
                        /\ win'[n].rect.h = win[n].rect.h
                ELSE win'[n].rect = win[n].rect]_vars

\* the log panel was dragged toward the lower right corner and stopped at
\* the edges of the screen, the mini map stayed where it was
C31_Witness ==
    /\ win["log"].dragging
    /\ win["log"].rect.x = screen[1] - win["log"].rect.w
    /\ win["log"].rect.y = screen[2] - win["log"].rect.h
    /\ win["small"].rect = InitWindows(StartScreen)["small"].rect

\* the keys that carry a printable character
CharKeys == Keys \ {"return", "backspace", "escape"}

\* C32: while a comment is being typed in dash.py, a press of a character key
\* (the I key included) appends its character to current_comment and changes
\* nothing else, and the entry Return commits carries the comment as typed.
C32_TypingOnlyAppends ==
    [][/\ \A k \in CharKeys :
            (viewer = "dash" /\ typing_comment /\ KeyDown(k)) =>
                /\ current_comment' = Append(current_comment, k)
                /\ UNCHANGED <<invert, running, typing_comment, log_entries, markers>>
                /\ UNCHANGED <<viewVars, dragVars, winVars, screen>>
       /\ Commit => log_entries'[Len(log_entries')].comment = current_comment]_vars

====
